---- MODULE Spec2Model ----
(***************************************************************************)
(* Model of scripts/pwrmsd_writer_multinode.py: the invalid-set scanner    *)
(* find_invalid_confs, the comparison rmsd, the per-cycle table builder    *)
(* pwrmsd_writer_multinode and the driver loop of __main__.                *)
(*                                                                         *)
(* Conformers are numbered from 1 in file names (cycle 0001, geom 01) and  *)
(* from 0 in the builder's loops; the flattened index of slot (c, g),      *)
(* both from 0, is c*tot_geom + g.                                         *)
(***************************************************************************)
EXTENDS Integers, Sequences, FiniteSets, TLC

\* ------------------------------------------------------------------ bounds
\* Largest tot_cyc of a driver run (the script sets 1000).
MaxCyc == 2
\* Largest tot_geom below the script's own 50 that the driver is run with.
MaxGeom == 2
\* Totals the scanner alone is run with.
ScanMaxCyc == 3
ScanMaxGeom == 2
\* How often a finished or crashed driver run is started again.
MaxReruns == 1

\* --------------------------------------------------------- program constants
\* The literal of `prev = current_cyc*50 + current_geom`.
HardGeom == 50
\* tot_geom as __main__ sets it (and the builder's default).
MainTotGeom == 50
\* Field widths of '%04d' and '%02d'.
CycWidth == 4
GeomWidth == 2

\* ------------------------------------------------------------- file names
RECURSIVE Digits(_)
\* The decimal digits of x >= 0, most significant first.
Digits(x) == IF x < 10 THEN <<x>> ELSE Append(Digits(x \div 10), x % 10)

\* '%0<w>d' % x: the digits of x, zero-padded on the left to at least w.
Pad(x, w) ==
    LET d == Digits(x)
    IN  IF Len(d) >= w THEN d ELSE [i \in 1..(w - Len(d)) |-> 0] \o d

RECURSIVE Val(_)
\* The number a digit string denotes.
Val(d) == IF Len(d) = 0 THEN 0
          ELSE 10 * Val(SubSeq(d, 1, Len(d) - 1)) + d[Len(d)]

\* '{ID}_{ADD}_{}_geom{}.tsv' in the result directory, by its two fields;
\* "self" stands for the run's own {ID}_{ADD} prefix.
TsvName(cstr, gstr) == <<"self", cstr, gstr>>

\* geomdir/cycle_{}_geom{}/{ID}_{ADD}_{}_geom{}.xyz, by its four fields.
XyzPath(dc, dg, fc, fg) == <<dc, dg, fc, fg>>

\* The builder's confstring.format(cstr, gstr, cstr, gstr) for slot (c, g),
\* both counted from 0.
ConfString(c, g) ==
    LET cstr == Pad(c + 1, CycWidth)
        gstr == Pad(g + 1, GeomWidth)
    IN  XyzPath(cstr, gstr, cstr, gstr)

\* x in list
InList(x, list) == \E i \in DOMAIN list : list[i] = x

\* ------------------------------------------------------ find_invalid_confs
\* The strings the two loops `for c in cycles: for g in geoms` go through,
\* in the order they do: cycle by cycle, and within a cycle by geometry.
ScanOrder(tc, tg) ==
    [k \in 1..(tc * tg) |->
        <<Pad(1 + ((k - 1) \div tg), CycWidth),
          Pad(1 + ((k - 1) % tg), GeomWidth)>>]

\* Mutant of ResultMissing: `in` for `not in`.
ResultPresent(c, g, listing) == TsvName(c, g) \in listing

\* `t.format(c, g) not in tsvs`
ResultMissing(c, g, listing) == TsvName(c, g) \notin listing

\* find_invalid_confs(ID, ADD, save, tot_cyc, tot_geom) over the listing
\* glob returned for the result directory: the returned list, to which each
\* pass of the loops appends the .xyz path of a slot whose result is missing.
FindInvalidConfs(tc, tg, listing) ==
    LET Missing(s) == ResultMissing(s[1], s[2], listing)
        miss == SelectSeq(ScanOrder(tc, tg), Missing)
    IN  [i \in 1..Len(miss) |->
            XyzPath(miss[i][1], miss[i][2], miss[i][1], miss[i][2])]

\* -------------------------------------------------------------------- rmsd
\* np.nan, the placeholder cell.
NaN == <<>>

\* What align.GetRMSD() returns after aligning the molecule read from the
\* file `target` onto the one read from `ref`: a value of the two molecules,
\* each identified by the cycle and geometry number of the file it is in.
Align(ref, target) ==
    <<Val(ref[3]), Val(ref[4]), Val(target[3]), Val(target[4])>>

\* rmsd(target, ref, invalid)
Rmsd(target, ref, inv) ==
    IF InList(target, inv) THEN NaN ELSE Align(ref, target)

\* ------------------------------------------------- pwrmsd_writer_multinode
\* prev = current_cyc*50 + current_geom
Prev(c, g) == c * HardGeom + g

\* Mutant of Placeholders: the 0.0 the script used before np.nan.
PlaceholdersZero(n) == [i \in 1..n |-> <<0>>]

\* `for i in range(n): row.append(np.nan)`
Placeholders(n) == [i \in 1..n |-> NaN]

\* Mutant of SelfCell: the conformer is aligned with itself.
SelfCellAligned(conf0) == Align(conf0, conf0)

\* The cell appended for the current cycle and geometry: row.append(np.nan).
SelfCell(conf0) == NaN

\* Mutant of Conformers: cstr is not set anew for the later cycles.
ConformersStaleCycle(c, g, tc, tg) ==
    [k \in 1..(tg - g - 1) |-> ConfString(c, g + k)]
    \o [k \in 1..((tc - c - 1) * tg) |-> ConfString(c, (k - 1) % tg)]

\* The conformer list the current geometry is compared against: the later
\* geometries of the current cycle, then every geometry of every later cycle.
Conformers(c, g, tc, tg) ==
    [k \in 1..(tg - g - 1) |-> ConfString(c, g + k)]
    \o [k \in 1..((tc - c - 1) * tg) |->
            ConfString(c + 1 + ((k - 1) \div tg), (k - 1) % tg)]

\* p.map(rmsd_partial, conformers): one task per member, the results in the
\* order of the members.
PoolMap(conformers, conf0, inv) ==
    [k \in 1..Len(conformers) |-> Rmsd(conformers[k], conf0, inv)]

\* The number of tasks the pool is given for the row of slot (c, g): none
\* when the slot's own conformer is invalid.
Tasks(c, g, tc, tg, inv) ==
    IF InList(ConfString(c, g), inv) THEN 0 ELSE Len(Conformers(c, g, tc, tg))

\* The alignments (tasks whose target is not invalid) of the row of (c, g).
Alignments(c, g, tc, tg, inv) ==
    IF InList(ConfString(c, g), inv) THEN 0
    ELSE LET cs == Conformers(c, g, tc, tg)
         IN  Cardinality({k \in 1..Len(cs) : ~InList(cs[k], inv)})

\* The list `row` of one pass of `for current_geom in geometries`, as it is
\* when it is assigned to current_df.loc[current_geom].
Row(c, g, tc, tg, inv) ==
    LET prev  == Prev(c, g)
        conf0 == ConfString(c, g)
        head  == Placeholders(prev) \o <<SelfCell(conf0)>>
    IN  IF InList(conf0, inv)
        THEN head \o [x \in 1..(tc * tg - (prev + 1)) |-> NaN]
        ELSE head \o PoolMap(Conformers(c, g, tc, tg), conf0, inv)

\* Mutant of LastGeometry: geometries is one short, range(0, tot_geom - 1).
LastGeometryShort(g, tg) == g + 1 >= tg - 1

\* `for current_geom in geometries` has no geometry after g.
LastGeometry(g, tg) == g + 1 >= tg

\* current_df.loc[label] = row succeeds only for a row with one cell per
\* column of DataFrame(columns=range(tot_cyc*tot_geom)); pandas raises
\* ValueError otherwise.
FitsColumns(row, tc, tg) == Len(row) = tc * tg

\* ------------------------------------------------------------------- state
VARIABLES
    tot_cyc,      \* tot_cyc of __main__
    tot_geom,     \* tot_geom of __main__
    tsvs,         \* the result directory: the names glob lists
    saved,        \* invalid_conf_paths.txt: <<>> while absent, else <<lines>>
    files,        \* writedir: cycle -> the cycle's .pkl
    start,        \* args.start of each driver run
    stop,         \* args.stop of each driver run
    pc,           \* where each run is
    cyc,          \* c of `for c in range(args.start, args.stop)`
    geom,         \* current_geom of the builder
    invalid,      \* the list find_invalid_confs returned
    current_df,   \* the builder's table: row label -> row
    built,        \* the row the builder built last, and its slot
    runNo,        \* how often the run has been started again
    lastOutcome,  \* how the run's previous start ended
    crashCyc,     \* the cycle a crashed run was working on, or -1
    nDispatch,    \* comparison tasks the running driver has handed to a pool
    nAlign,       \* alignments the running driver has had computed
    calls,        \* the cycles the run has called the builder for
    visited       \* the cycles the run's loop has taken, in order

vars == <<tot_cyc, tot_geom, tsvs, saved, files, start, stop, pc, cyc, geom,
          invalid, current_df, built, runNo, lastOutcome, crashCyc,
          nDispatch, nAlign, calls, visited>>

Runs == DOMAIN pc

\* No file of that name in writedir.
NoFile == [status |-> "none", opens |-> 0, by |-> 0, table |-> <<>>]

\* No row built yet in the current call of the builder.
NoRow == [c |-> -1, g |-> -1, prev |-> 0, row |-> <<>>, tasks |-> 0]

\* Mutant of IsFile: the driver never finds a cycle already written.
IsFileNever(c) == FALSE

\* isfile(join(writedir, f'{ID}_{ADD}_cycle{cstr}_pwrmsd.pkl')): true of any
\* file of that name, whatever it holds.
IsFile(c) == files[c].status # "none"

\* The result files the scanner expects, and two it does not: another
\* molecule's, and one named with unpadded numbers.
ExpectedTsvs(tc, tg) ==
    {TsvName(Pad(c, CycWidth), Pad(g, GeomWidth)) : c \in 1..tc, g \in 1..tg}
StrayTsvs == {<<"other", Pad(1, CycWidth), Pad(1, GeomWidth)>>,
              TsvName(Digits(1), Digits(1))}

\* The slots whose result file a driver run may find missing: one per cycle,
\* geometry number min(cycle number, tot_geom).
HoleSlots(tc, tg) ==
    {TsvName(Pad(c, CycWidth), Pad(IF c < tg THEN c ELSE tg, GeomWidth)) :
        c \in 1..tc}
Listings(tc, tg) ==
    {ExpectedTsvs(tc, tg) \ h : h \in SUBSET HoleSlots(tc, tg)}

\* The state every run starts in, before find_invalid_confs.
Fresh(rs) ==
    /\ pc = [r \in rs |-> "scan"]
    /\ cyc = [r \in rs |-> 0]
    /\ geom = [r \in rs |-> 0]
    /\ invalid = [r \in rs |-> <<>>]
    /\ current_df = [r \in rs |-> <<>>]
    /\ built = [r \in rs |-> NoRow]
    /\ runNo = [r \in rs |-> 0]
    /\ lastOutcome = [r \in rs |-> "none"]
    /\ crashCyc = [r \in rs |-> -1]
    /\ nDispatch = [r \in rs |-> 0]
    /\ nAlign = [r \in rs |-> 0]
    /\ calls = [r \in rs |-> {}]
    /\ visited = [r \in rs |-> <<>>]

\* One driver run over [start, stop), an empty writedir.
Init ==
    \E tc \in 1..MaxCyc, tg \in (1..MaxGeom) \cup {MainTotGeom} :
        /\ tot_cyc = tc
        /\ tot_geom = tg
        /\ tsvs \in Listings(tc, tg)
        /\ saved = <<>>
        /\ files = [c \in 0..(tc - 1) |-> NoFile]
        /\ \E s \in 0..tc : \E t \in s..tc :
              /\ start = [r \in {1} |-> s]
              /\ stop = [r \in {1} |-> t]
        /\ Fresh({1})

\* The scanner alone, over any listing of the result directory.
InitScan ==
    \E tc \in 1..ScanMaxCyc, tg \in 1..ScanMaxGeom :
        /\ tot_cyc = tc
        /\ tot_geom = tg
        /\ tsvs \in SUBSET (ExpectedTsvs(tc, tg) \cup StrayTsvs)
        /\ saved = <<>>
        /\ files = [c \in 0..(tc - 1) |-> NoFile]
        /\ start = [r \in {1} |-> 0]
        /\ stop = [r \in {1} |-> 0]
        /\ Fresh({1})

\* A .pkl an earlier run wrote.
Earlier == [status |-> "complete", opens |-> 1, by |-> 0, table |-> <<>>]

\* Two driver runs at once that split the cycles between them, one taking
\* [0, k) and the other [k, tot_cyc); one result file per cycle is missing, and the first cycle may have been written by
\* an earlier run.
InitMulti ==
    \E tc \in 1..MaxCyc, tg \in (1..MaxGeom) \cup {MainTotGeom} :
        /\ tot_cyc = tc
        /\ tot_geom = tg
        /\ tsvs = ExpectedTsvs(tc, tg) \ HoleSlots(tc, tg)
        /\ saved = <<>>
        /\ \E pre \in {{}, {0}} :
              files = [c \in 0..(tc - 1) |->
                          IF c \in pre THEN Earlier ELSE NoFile]
        /\ \E k \in 0..tc :
              /\ start = [r \in {1, 2} |-> IF r = 1 THEN 0 ELSE k]
              /\ stop = [r \in {1, 2} |-> IF r = 1 THEN k ELSE tc]
        /\ Fresh({1, 2})

\* ----------------------------------------------------------------- actions
\* invalid = find_invalid_confs(ID, ADD, save=True, ...), which also writes
\* invalid_conf_paths.txt; then the loop starts at args.start.
Scan(r) ==
    /\ pc[r] = "scan"
    /\ LET conformers == FindInvalidConfs(tot_cyc, tot_geom, tsvs)
       IN  /\ invalid' = [invalid EXCEPT ![r] = conformers]
           /\ saved' = <<conformers>>
    /\ cyc' = [cyc EXCEPT ![r] = start[r]]
    /\ pc' = [pc EXCEPT ![r] = "loop"]
    /\ UNCHANGED <<tot_cyc, tot_geom, tsvs, files, start, stop, geom,
                   current_df, built, runNo, lastOutcome, crashCyc,
                   nDispatch, nAlign, calls, visited>>

\* One pass of `for c in range(args.start, args.stop)` up to the call of the
\* builder: the loop ends, or skips a cycle whose .pkl is a file, or calls
\* pwrmsd_writer_multinode, which starts with an empty table.
LoopStep(r) ==
    /\ pc[r] = "loop"
    /\ IF cyc[r] >= stop[r]
       THEN /\ pc' = [pc EXCEPT ![r] = "done"]
            /\ UNCHANGED <<cyc, calls, visited>>
       ELSE /\ visited' = [visited EXCEPT ![r] = Append(@, cyc[r])]
            /\ IF IsFile(cyc[r])
               THEN /\ cyc' = [cyc EXCEPT ![r] = @ + 1]
                    /\ UNCHANGED <<pc, calls>>
               ELSE /\ pc' = [pc EXCEPT ![r] = "rows"]
                    /\ calls' = [calls EXCEPT ![r] = @ \cup {cyc[r]}]
                    /\ UNCHANGED cyc
    /\ UNCHANGED <<tot_cyc, tot_geom, tsvs, saved, files, start, stop, geom,
                   invalid, current_df, built, runNo, lastOutcome, crashCyc,
                   nDispatch, nAlign>>

\* One pass of `for current_geom in geometries`: the row is built (by the
\* pool unless the slot's conformer is invalid) and assigned to the table;
\* a row that does not fit the columns ends the run with ValueError.
BuildRow(r) ==
    /\ pc[r] = "rows"
    /\ LET c   == cyc[r]
           g   == geom[r]
           row == Row(c, g, tot_cyc, tot_geom, invalid[r])
           n   == Tasks(c, g, tot_cyc, tot_geom, invalid[r])
       IN  /\ built' = [built EXCEPT ![r] =
                  [c |-> c, g |-> g, prev |-> Prev(c, g), row |-> row,
                   tasks |-> n]]
           /\ nDispatch' = [nDispatch EXCEPT ![r] = @ + n]
           /\ nAlign' = [nAlign EXCEPT ![r] =
                            @ + Alignments(c, g, tot_cyc, tot_geom, invalid[r])]
           /\ IF FitsColumns(row, tot_cyc, tot_geom)
              THEN /\ current_df' = [current_df EXCEPT ![r] = (g :> row) @@ @]
                   /\ IF LastGeometry(g, tot_geom)
                      THEN /\ pc' = [pc EXCEPT ![r] = "persist"]
                           /\ UNCHANGED geom
                      ELSE /\ geom' = [geom EXCEPT ![r] = g + 1]
                           /\ UNCHANGED pc
                   /\ UNCHANGED crashCyc
              ELSE /\ pc' = [pc EXCEPT ![r] = "crashed"]
                   /\ crashCyc' = [crashCyc EXCEPT ![r] = c]
                   /\ UNCHANGED <<current_df, geom>>
    /\ UNCHANGED <<tot_cyc, tot_geom, tsvs, saved, files, start, stop, cyc,
                   invalid, runNo, lastOutcome, calls, visited>>

\* current_df.to_pickle(path), first half: the file is opened for writing,
\* which creates it (or empties it).
PersistOpen(r) ==
    /\ pc[r] = "persist"
    /\ files' = [files EXCEPT ![cyc[r]] =
                    [status |-> "partial", opens |-> @.opens + 1, by |-> r,
                     table |-> <<>>]]
    /\ pc' = [pc EXCEPT ![r] = "write"]
    /\ UNCHANGED <<tot_cyc, tot_geom, tsvs, saved, start, stop, cyc, geom,
                   invalid, current_df, built, runNo, lastOutcome, crashCyc,
                   nDispatch, nAlign, calls, visited>>

\* current_df.to_pickle(path), second half: the pickled table is written and
\* the file closed; the builder returns and the loop goes to the next cycle.
PersistWrite(r) ==
    /\ pc[r] = "write"
    /\ files' = [files EXCEPT ![cyc[r]] =
                    [@ EXCEPT !.status = "complete", !.table = current_df[r]]]
    /\ cyc' = [cyc EXCEPT ![r] = @ + 1]
    /\ geom' = [geom EXCEPT ![r] = 0]
    /\ current_df' = [current_df EXCEPT ![r] = <<>>]
    /\ built' = [built EXCEPT ![r] = NoRow]
    /\ pc' = [pc EXCEPT ![r] = "loop"]
    /\ UNCHANGED <<tot_cyc, tot_geom, tsvs, saved, start, stop, invalid,
                   runNo, lastOutcome, crashCyc, nDispatch, nAlign, calls,
                   visited>>

\* The run ends at any point without finishing: it is killed, or a library
\* call raises (a missing .xyz, a full disk).  What it held in memory is
\* gone; what it wrote to disk stays.
Crash(r) ==
    /\ pc[r] \in {"scan", "loop", "rows", "persist", "write"}
    /\ crashCyc' = [crashCyc EXCEPT ![r] =
                       IF pc[r] \in {"rows", "persist", "write"}
                       THEN cyc[r] ELSE -1]
    /\ pc' = [pc EXCEPT ![r] = "crashed"]
    /\ cyc' = [cyc EXCEPT ![r] = 0]
    /\ geom' = [geom EXCEPT ![r] = 0]
    /\ invalid' = [invalid EXCEPT ![r] = <<>>]
    /\ current_df' = [current_df EXCEPT ![r] = <<>>]
    /\ built' = [built EXCEPT ![r] = NoRow]
    /\ nDispatch' = [nDispatch EXCEPT ![r] = 0]
    /\ nAlign' = [nAlign EXCEPT ![r] = 0]
    /\ UNCHANGED <<tot_cyc, tot_geom, tsvs, saved, files, start, stop, runNo,
                   lastOutcome, calls, visited>>

\* The driver is started again with the same arguments.
Rerun(r) ==
    /\ pc[r] \in {"done", "crashed"}
    /\ runNo[r] < MaxReruns
    /\ runNo' = [runNo EXCEPT ![r] = @ + 1]
    /\ lastOutcome' = [lastOutcome EXCEPT ![r] = pc[r]]
    /\ pc' = [pc EXCEPT ![r] = "scan"]
    /\ cyc' = [cyc EXCEPT ![r] = 0]
    /\ geom' = [geom EXCEPT ![r] = 0]
    /\ invalid' = [invalid EXCEPT ![r] = <<>>]
    /\ current_df' = [current_df EXCEPT ![r] = <<>>]
    /\ built' = [built EXCEPT ![r] = NoRow]
    /\ crashCyc' = [crashCyc EXCEPT ![r] = -1]
    /\ nDispatch' = [nDispatch EXCEPT ![r] = 0]
    /\ nAlign' = [nAlign EXCEPT ![r] = 0]
    /\ calls' = [calls EXCEPT ![r] = {}]
    /\ visited' = [visited EXCEPT ![r] = <<>>]
    /\ UNCHANGED <<tot_cyc, tot_geom, tsvs, saved, files, start, stop>>

Next ==
    \/ \E r \in Runs : Scan(r)
    \/ \E r \in Runs : LoopStep(r)
    \/ \E r \in Runs : BuildRow(r)
    \/ \E r \in Runs : PersistOpen(r)
    \/ \E r \in Runs : PersistWrite(r)
    \/ \E r \in Runs : Crash(r)
    \/ \E r \in Runs : Rerun(r)

Spec == Init /\ [][Next]_vars

NextMulti ==
    \/ \E r \in Runs : Scan(r)
    \/ \E r \in Runs : LoopStep(r)
    \/ \E r \in Runs : BuildRow(r)
    \/ \E r \in Runs : PersistOpen(r)
    \/ \E r \in Runs : PersistWrite(r)
    \/ \E r \in Runs : Crash(r)

SpecMulti == InitMulti /\ [][NextMulti]_vars

NextScan == \E r \in Runs : Scan(r)

SpecScan == InitScan /\ [][NextScan]_vars

\* ------------------------------------------------------ what the claims use
\* The number of columns of a cycle's table.
Total == tot_cyc * tot_geom

\* The flattened global index of slot (c, g), both counted from 0.
Flat(c, g) == c * tot_geom + g

\* The slot with flattened index f.
CycOf(f) == f \div tot_geom
GeomOf(f) == f % tot_geom

\* Slot (c, g) is valid: its result file is in the result directory.
Valid(c, g) ==
    TsvName(Pad(c + 1, CycWidth), Pad(g + 1, GeomWidth)) \in tsvs

\* The tables the program has produced so far, each with its cycle: the one
\* every call of the builder is filling, and the ones written to writedir.
Tables ==
    {<<cyc[r], current_df[r]>> :
        r \in {x \in Runs : pc[x] \in {"rows", "persist", "write"}}}
    \cup {<<c, files[c].table>> :
        c \in {x \in DOMAIN files : files[x].status = "complete"}}

\* Cell (i, j) of table t: row label i, column j (both from 0).
Cell(t, i, j) == t[i][j + 1]

CycleAllValid(c) == \A g \in 0..(tot_geom - 1) : Valid(c, g)

\* C1: in a table of a cycle whose conformers are all valid, every row i has
\* one cell per column and a placeholder in every column j <= c*tot_geom + i.
C1_UpperTriangular ==
    \A ct \in Tables :
        CycleAllValid(ct[1]) =>
            \A i \in DOMAIN ct[2] :
                /\ Len(ct[2][i]) = Total
                /\ \A j \in 0..Flat(ct[1], i) : Cell(ct[2], i, j) = NaN

\* A written table of a later cycle, all of whose conformers are valid, with
\* a computed score in its first row.
C1_Witness ==
    \E c \in DOMAIN files :
        /\ c >= 1
        /\ files[c].status = "complete"
        /\ CycleAllValid(c)
        /\ tot_geom >= 2
        /\ Cell(files[c].table, 0, Flat(c, 1)) # NaN

\* C2: in every table, the cell of row i in the column of the row's own
\* conformer, c*tot_geom + i, is a placeholder.
C2_SelfPlaceholder ==
    \A ct \in Tables :
        \A i \in DOMAIN ct[2] :
            /\ Flat(ct[1], i) < Len(ct[2][i])
            /\ Cell(ct[2], i, Flat(ct[1], i)) = NaN

\* A written table of a later cycle with the row of an invalid conformer and
\* the row of a valid one that holds a computed score.
C2_Witness ==
    \E c \in DOMAIN files :
        /\ c >= 1
        /\ files[c].status = "complete"
        /\ \E i, k \in DOMAIN files[c].table :
              /\ ~Valid(c, i)
              /\ Valid(c, k)
              /\ \E j \in 0..(Total - 1) : Cell(files[c].table, k, j) # NaN

\* The row a run has just built is the row of a slot that is (not) in the
\* invalid list the run holds.
BuiltRows == {r \in Runs : built[r].c >= 0}
OwnInvalid(r) == InList(ConfString(built[r].c, built[r].g), invalid[r])

\* C3: when the current slot's path is in the invalid set, its row is all
\* placeholders, no comparison is dispatched for it, and the row is put in
\* the table, the builder going on to the next geometry.
C3_InvalidRowSkipped ==
    \A r \in BuiltRows :
        OwnInvalid(r) =>
            /\ built[r].tasks = 0
            /\ \A j \in 1..Len(built[r].row) : built[r].row[j] = NaN
            /\ pc[r] # "crashed"
            /\ built[r].g \in DOMAIN current_df[r]
            /\ current_df[r][built[r].g] = built[r].row

\* C8: the placeholders put before the self-comparison cell are as many as
\* the slots before this one in flattened order, current_cyc*tot_geom +
\* current_geom.
C8_LeadingPlaceholders ==
    \A r \in BuiltRows : built[r].prev = Flat(built[r].c, built[r].g)

\* C9: the row of a valid conformer with flattened index f has tot_cyc *
\* tot_geom cells, and its cell in each column j > f is a placeholder if
\* conformer j is invalid and else the score of (row conformer, conformer j).
C9_RowOfValid ==
    \A r \in BuiltRows :
        ~OwnInvalid(r) =>
            LET c == built[r].c
                g == built[r].g
            IN  /\ Len(built[r].row) = Total
                /\ built[r].tasks = Total - Flat(c, g) - 1
                /\ \A j \in (Flat(c, g) + 1)..(Total - 1) :
                      built[r].row[j + 1] =
                          IF InList(ConfString(CycOf(j), GeomOf(j)), invalid[r])
                          THEN NaN
                          ELSE Align(ConfString(c, g),
                                     ConfString(CycOf(j), GeomOf(j)))

\* The input path and the result name of slot (cn, gn), numbered from 1.
InputPath(cn, gn) == ConfString(cn - 1, gn - 1)
ResultName(cn, gn) == TsvName(Pad(cn, CycWidth), Pad(gn, GeomWidth))

\* How often x is in list.
Count(x, list) == Cardinality({i \in DOMAIN list : list[i] = x})

\* The expected results that are in the listing.
PresentResults == tsvs \cap ExpectedTsvs(tot_cyc, tot_geom)

\* C4: the list find_invalid_confs returned holds the input path of (c, g)
\* once if the result of (c, g) is not in the listing and not at all if it
\* is, holds nothing else, and is in cycle-major, then geometry, order; so
\* with no result it has tot_cyc*tot_geom entries and with one expected
\* result present one fewer.
C4_ScanIsDifference ==
    \A r \in Runs :
        pc[r] \notin {"scan", "crashed"} =>
            LET list == invalid[r]
            IN  /\ \A cn \in 1..tot_cyc, gn \in 1..tot_geom :
                      Count(InputPath(cn, gn), list) =
                          IF ResultName(cn, gn) \in tsvs THEN 0 ELSE 1
                /\ Len(list) = Total - Cardinality(PresentResults)
                /\ \A i, j \in DOMAIN list :
                      i < j =>
                          \/ Val(list[i][3]) < Val(list[j][3])
                          \/ /\ Val(list[i][3]) = Val(list[j][3])
                             /\ Val(list[i][4]) < Val(list[j][4])
                /\ (tsvs = {} => Len(list) = Total)
                /\ (Cardinality(PresentResults) = 1 => Len(list) = Total - 1)

\* The scanner has returned 5 of the 6 input paths of 3 cycles x 2
\* geometries: one expected result is present, among files it does not expect.
C4_Witness ==
    /\ tot_cyc = 3
    /\ tot_geom = 2
    /\ Cardinality(PresentResults) = 1
    /\ StrayTsvs \subseteq tsvs
    /\ \E r \in Runs : pc[r] = "loop" /\ Len(invalid[r]) = 5

\* The cycles of a run's range.
Range(r) == start[r]..(stop[r] - 1)

\* C5: a run started again after it completed finds the .pkl of every cycle
\* of its range, calls the builder for none, dispatches no comparison and
\* changes no file of its range.
C5_SecondRunSkipsAll ==
    [][\A r \in Runs :
          lastOutcome[r] = "done" =>
              /\ \A c \in Range(r) : IsFile(c) /\ files'[c] = files[c]
              /\ calls'[r] = {}
              /\ nDispatch'[r] = 0
              /\ nAlign'[r] = 0
              /\ pc'[r] \notin {"rows", "persist", "write"}]_vars

\* A second run over two cycles has ended after a first run that computed
\* and wrote both.
C5_Witness ==
    \E r \in Runs :
        /\ lastOutcome[r] = "done"
        /\ pc[r] = "done"
        /\ stop[r] - start[r] = 2
        /\ Len(visited[r]) = 2
        /\ \A c \in Range(r) : files[c].status = "complete" /\ files[c].by = r

\* C6: a run that ended while it was processing a cycle (building its rows
\* or persisting its table) has left no file for that cycle.
C6_CrashLeavesNoArtifact ==
    \A r \in Runs :
        (pc[r] = "crashed" /\ crashCyc[r] >= 0) => ~IsFile(crashCyc[r])

\* The valid conformers, by flattened index.
ValidSlots == {f \in 0..(Total - 1) : Valid(CycOf(f), GeomOf(f))}

\* A first run over all cycles that started with an empty writedir and ended.
CompleteRun(r) ==
    /\ pc[r] = "done"
    /\ runNo[r] = 0
    /\ start[r] = 0
    /\ stop[r] = tot_cyc

\* C7: after a complete run the tables hold, for every two valid conformers
\* f < j, the score of (f, j) in row f, column j, and a placeholder in every
\* other cell, and the run has computed as many alignments as there are
\* pairs of valid conformers: each such pair once, no other pair at all.
C7_EachPairOnce ==
    \A r \in Runs :
        CompleteRun(r) =>
            LET valid == ValidSlots
            IN  /\ \A c \in 0..(tot_cyc - 1) :
                      /\ files[c].status = "complete"
                      /\ DOMAIN files[c].table = 0..(tot_geom - 1)
                      /\ \A i \in 0..(tot_geom - 1), j \in 0..(Total - 1) :
                            Cell(files[c].table, i, j) =
                                IF /\ Flat(c, i) < j
                                   /\ Flat(c, i) \in valid
                                   /\ j \in valid
                                THEN Align(ConfString(c, i),
                                           ConfString(CycOf(j), GeomOf(j)))
                                ELSE NaN
                /\ 2 * nAlign[r] = Cardinality(valid) * (Cardinality(valid) - 1)

\* A complete run over two cycles with an invalid conformer in each.
C7_Witness ==
    \E r \in Runs :
        /\ CompleteRun(r)
        /\ tot_cyc = 2
        /\ nAlign[r] > 0
        /\ \A c \in 0..1 : \E g \in 0..(tot_geom - 1) : ~Valid(c, g)

\* C10: with runs over disjoint ranges, each cycle is computed by at most one
\* run, its file is opened for writing at most once, by the run that has it
\* in its range, and only once all its rows are in the table; a run takes
\* the cycles of its range one after the other in ascending order; and when
\* all runs have ended every cycle of every range has its file.
C10_DisjointRuns ==
    /\ \A c \in DOMAIN files :
          /\ Cardinality({r \in Runs : c \in calls[r]}) <= 1
          /\ files[c].opens <= 1
          /\ files[c].by # 0 =>
                /\ c \in Range(files[c].by)
                /\ c \in calls[files[c].by]
                /\ files[c].status = "complete" =>
                      DOMAIN files[c].table = 0..(tot_geom - 1)
                /\ files[c].status = "partial" =>
                      \/ pc[files[c].by] = "write" /\ cyc[files[c].by] = c
                      \/ pc[files[c].by] = "crashed" /\ crashCyc[files[c].by] = c
    /\ \A r \in Runs :
          /\ calls[r] \subseteq Range(r)
          /\ Len(visited[r]) <= stop[r] - start[r]
          /\ visited[r] = [k \in 1..Len(visited[r]) |-> start[r] + k - 1]
          /\ pc[r] \in {"persist", "write"} =>
                DOMAIN current_df[r] = 0..(tot_geom - 1)
    /\ (\A r \in Runs : pc[r] = "done") =>
          \A r \in Runs : \A c \in Range(r) : files[c].status = "complete"

\* Two runs have ended, each having computed and written a cycle of its own
\* while the other was at work.
C10_Witness ==
    /\ Cardinality(Runs) = 2
    /\ \A r \in Runs : pc[r] = "done" /\ calls[r] # {}
    /\ \A c \in DOMAIN files : files[c].status = "complete" /\ files[c].by # 0

====
